---- MODULE Spec2Model ----
(***************************************************************************)
(* Model of the weather MCP server (src/src/server.ts) and of its older    *)
(* direct-query variant (src/unnamed/part_001).                            *)
(*                                                                         *)
(* A tool invocation is a small state machine: the handler validates the   *)
(* arguments, resolves coordinates (from the arguments or by one request   *)
(* to the geocoder), builds the upstream parameters, issues one GET to the *)
(* weather provider and wraps the parsed body in a ToolResult.  The two    *)
(* external services are the environment: their answers are chosen         *)
(* nondeterministically.                                                   *)
(*                                                                         *)
(* JavaScript values are tagged records, so that values of different types *)
(* can be compared.  Coordinates are modelled at whole-degree resolution.  *)
(***************************************************************************)
EXTENDS FiniteSets, Integers, Sequences, TLC

-----------------------------------------------------------------------------
(* JavaScript values *)

Undefined == [t |-> "undefined"]
NaN == [t |-> "NaN"]
Num(v) == [t |-> "number", v |-> v]
\* a string the program treats as opaque (city names, units, keys)
Str(s) == [t |-> "string", s |-> s]
\* a string whose characters the program reads or writes (numbers as text)
Text(cs) == [t |-> "string", chars |-> cs]

IsNum(x) == x.t = "number"

\* JavaScript truthiness, as used by `d.city ||`, `if (args.city)`,
\* `if (exclude)` and `if (!API_KEY)`
Truthy(x) ==
  CASE x.t = "undefined" -> FALSE
    [] x.t = "NaN" -> FALSE
    [] x.t = "number" -> x.v # 0
    [] x.t = "string" -> IF "s" \in DOMAIN x THEN x.s # "" ELSE x.chars # <<>>
    [] OTHER -> TRUE

\* a ?? b
Coalesce(a, b) == IF a = Undefined THEN b ELSE a

-----------------------------------------------------------------------------
(* Number <-> text conversions: parseFloat and String(number) *)

DigitChars == <<"0", "1", "2", "3", "4", "5", "6", "7", "8", "9">>

IsDigit(ch) == \E i \in 1..10 : DigitChars[i] = ch

DigitVal(ch) == (CHOOSE i \in 1..10 : DigitChars[i] = ch) - 1

RECURSIVE TrimStart(_)
TrimStart(cs) ==
  IF cs # <<>> /\ Head(cs) = " " THEN TrimStart(Tail(cs)) ELSE cs

RECURSIVE DigitPrefix(_)
DigitPrefix(cs) ==
  IF cs # <<>> /\ IsDigit(Head(cs))
    THEN <<Head(cs)>> \o DigitPrefix(Tail(cs))
    ELSE <<>>

RECURSIVE DigitsValue(_, _)
DigitsValue(ds, acc) ==
  IF ds = <<>> THEN acc ELSE DigitsValue(Tail(ds), 10 * acc + DigitVal(Head(ds)))

\* parseFloat(x): x is converted to a string, leading white space is skipped
\* and the longest prefix that is a decimal literal is read; NaN when there
\* is none (also for undefined, whose string form is "undefined").
parseFloat(x) ==
  IF ~("chars" \in DOMAIN x) THEN NaN
  ELSE LET t == TrimStart(x.chars)
           signed == t # <<>> /\ Head(t) \in {"-", "+"}
           neg == t # <<>> /\ Head(t) = "-"
           rest == IF signed THEN Tail(t) ELSE t
           ds == DigitPrefix(rest)
       IN IF ds = <<>> THEN NaN
          ELSE Num(IF neg THEN 0 - DigitsValue(ds, 0) ELSE DigitsValue(ds, 0))

RECURSIVE NatChars(_)
NatChars(n) ==
  IF n < 10 THEN <<DigitChars[n + 1]>>
  ELSE NatChars(n \div 10) \o <<DigitChars[(n % 10) + 1]>>

\* String(x) as buildParams applies it to a coordinate
String(x) ==
  CASE x.t = "NaN" -> Text(<<"N", "a", "N">>)
    [] x.t = "undefined" ->
         Text(<<"u", "n", "d", "e", "f", "i", "n", "e", "d">>)
    [] x.t = "number" ->
         Text(IF x.v < 0 THEN <<"-">> \o NatChars(0 - x.v) ELSE NatChars(x.v))
    [] OTHER -> x

-----------------------------------------------------------------------------
(* Input validation: commonFields and commonSchema *)

LAT_MIN == -90
LAT_MAX == 90
LON_MIN == -180
LON_MAX == 180

UnitsEnum == {"standard", "metric", "imperial"}

RefineMessage == "Provide city or both lat and lon"

\* z.number().min(lo).max(hi).optional() on field `path`
RangeIssues(path, x, lo, hi) ==
  IF IsNum(x)
    THEN (IF x.v < lo
            THEN {[code |-> "too_small", path |-> path, message |-> "too small"]}
            ELSE {})
         \cup
         (IF x.v > hi
            THEN {[code |-> "too_big", path |-> path, message |-> "too big"]}
            ELSE {})
    ELSE {}

\* the field checks skipped when a city is given
commonFieldsIssuesUnlessCity(a) ==
  IF Truthy(a.city) THEN {}
  ELSE RangeIssues("lat", a.lat, LAT_MIN, LAT_MAX)
         \cup RangeIssues("lon", a.lon, LON_MIN, LON_MAX)

\* the issues z.object(commonFields) reports for well-typed arguments
commonFieldsIssues(a) ==
  RangeIssues("lat", a.lat, LAT_MIN, LAT_MAX)
    \cup RangeIssues("lon", a.lon, LON_MIN, LON_MAX)

\* the refinement with || where the code has &&
refinementEitherCoordinate(d) ==
  Truthy(d.city) \/ d.lat # Undefined \/ d.lon # Undefined

\* the refinement testing the coordinates for truthiness, so that 0 is missing
refinementTruthyCoordinates(d) ==
  Truthy(d.city) \/ (Truthy(d.lat) /\ Truthy(d.lon))

\* the predicate given to .refine
refinement(d) ==
  Truthy(d.city) \/ (d.lat # Undefined /\ d.lon # Undefined)

\* the issues commonSchema.parse(args) reports; it throws when there are any.
\* Range failures do not abort the object, so the refinement runs as well.
commonSchemaIssues(a) ==
  commonFieldsIssues(a)
    \cup (IF refinement(a) THEN {}
          ELSE {[code |-> "custom", path |-> "", message |-> RefineMessage]})

ZodError(issues) == [t |-> "error", name |-> "ZodError", issues |-> issues]

\* whether the message of error e contains the text m
MessageContains(e, m) ==
  /\ "issues" \in DOMAIN e
  /\ \E i \in e.issues : i.message = m

-----------------------------------------------------------------------------
(* The answers of the two external services *)

\* how many results a geocoder answer may list
MaxResults == 1

\* one element of the geocoder's result list: lat and lon are texts, or missing
GeoItems ==
  { [lat |-> Text(<<"5", "1">>), lon |-> Text(<<"-", "0">>)],
    [lat |-> Text(<<"-", "9", "0">>), lon |-> Text(<<"1", "8", "0">>)],
    [lat |-> Text(<<" ", "0", "7">>), lon |-> Text(<<"+", "5", "x">>)],
    [lat |-> Text(<<"9", "1">>), lon |-> Text(<<"1", "0">>)],
    [lat |-> Text(<<"4", "5">>), lon |-> Text(<<"-", "1", "8", "1">>)],
    [lat |-> Text(<<"x">>), lon |-> Text(<<"3">>)],
    [lat |-> Undefined, lon |-> Text(<<"3">>)] }

SeqsUpTo(S, n) == UNION {[1..k -> S] : k \in 0..n}

JNull == [j |-> "null"]
JObject == [j |-> "object"]
JArray(items) == [j |-> "array", items |-> items]

\* what `await request(url)` followed by `await body.json()` can produce: the
\* request rejects, or a response arrives whose body is or is not JSON.
\* request() does not reject on an error status.
Rejected == [kind |-> "reject"]
NotJson(status) == [kind |-> "response", status |-> status, json |-> FALSE]
Json(status, data) ==
  [kind |-> "response", status |-> status, json |-> TRUE, data |-> data]

NoAnswer == [kind |-> "none"]

GeoAnswers ==
  {Rejected, NotJson(200), NotJson(503), Json(200, JNull), Json(400, JObject)}
    \cup {Json(200, JArray(items)) : items \in SeqsUpTo(GeoItems, MaxResults)}

\* bodies of the weather provider: a One Call document (with or without an
\* alerts list), or an error document
OneCall(alerts) ==
  [j |-> "object", lat |-> Num(51), lon |-> Num(0), current |-> [temp |-> 10],
   alerts |-> alerts]
ErrorDoc == [j |-> "object", cod |-> 401, message |-> "Invalid API key"]

WeatherAnswers ==
  {Rejected, NotJson(200), NotJson(502), Json(200, JNull), Json(401, ErrorDoc)}
    \cup {Json(200, OneCall(al)) : al \in {Undefined, JArray(<<>>), JArray(<<[event |-> "Flood"]>>)}}

\* the outcome of awaiting a request and parsing its body as JSON
Resolved(v) == [ok |-> TRUE, value |-> v]
Thrown(e) == [ok |-> FALSE, error |-> e]

requestJson(answer) ==
  CASE answer.kind = "reject" -> Thrown([t |-> "error", name |-> "RequestError"])
    [] ~answer.json -> Thrown([t |-> "error", name |-> "SyntaxError"])
    [] OTHER -> Resolved(answer.data)

-----------------------------------------------------------------------------
(* The geocoding adapter and the parameter builder *)

\* property access o.k, undefined when o has no such property
Get(o, k) == IF k \in DOMAIN o THEN o[k] ELSE Undefined

\* new Error(`Failed to geocode city "${city}": ${error}`); the message is
\* kept as the parts of the template
GeocodeError(city, cause) ==
  [t |-> "error", name |-> "Error",
   message |-> <<"Failed to geocode city \"", city.s, "\": ", cause>>]

\* geocodeCity without its try/catch: failures propagate as they are
geocodeCityNoCatch(city, answer) ==
  LET r == requestJson(answer)
  IN IF ~r.ok THEN r
     ELSE LET data == r.value
          IN IF data = JNull \/ (data.j = "array" /\ Len(data.items) = 0)
               THEN Thrown([t |-> "error", name |-> "Error",
                            message |-> <<"City \"", city.s, "\" not found">>])
             ELSE IF data.j # "array"
               THEN Thrown([t |-> "error", name |-> "TypeError"])
             ELSE LET result == data.items[1]
                  IN Resolved([lat |-> parseFloat(result.lat),
                               lon |-> parseFloat(result.lon)])

\* geocodeCity(city), given the geocoder's answer to its one request
geocodeCity(city, answer) ==
  LET r == requestJson(answer)
  IN IF ~r.ok THEN Thrown(GeocodeError(city, r.error.name))
     ELSE LET data == r.value
          IN IF data = JNull \/ (data.j = "array" /\ Len(data.items) = 0)
               THEN Thrown(GeocodeError(city, "Error: City not found"))
             ELSE IF data.j # "array"
               \* data[0] is undefined and reading its lat throws
               THEN Thrown(GeocodeError(city, "TypeError"))
             ELSE LET result == data.items[1]
                  IN Resolved([lat |-> parseFloat(result.lat),
                               lon |-> parseFloat(result.lon)])

\* buildParams preferring the caller's coordinates to the geocoder's
buildParamsCallerFirst(lat, lon, a, exclude, key) ==
  LET params == [lat |-> String(Coalesce(a.lat, lat)),
                 lon |-> String(Coalesce(a.lon, lon)),
                 units |-> Coalesce(a.units, Str("metric")),
                 appid |-> key]
  IN IF Truthy(exclude) THEN params @@ ("exclude" :> exclude) ELSE params

\* buildParams with the provider's default units where the code has metric
buildParamsStandardDefault(lat, lon, a, exclude, key) ==
  LET params == [lat |-> String(lat),
                 lon |-> String(lon),
                 units |-> Coalesce(a.units, Str("standard")),
                 appid |-> key]
  IN IF Truthy(exclude) THEN params @@ ("exclude" :> exclude) ELSE params

\* buildParams setting exclude without testing it
buildParamsAlwaysExclude(lat, lon, a, exclude, key) ==
  [lat |-> String(lat),
   lon |-> String(lon),
   units |-> Coalesce(a.units, Str("metric")),
   appid |-> key,
   exclude |-> exclude]

\* the second half of buildParams: the parameters built from the coordinates
buildParams(lat, lon, a, exclude, key) ==
  LET params == [lat |-> String(lat),
                 lon |-> String(lon),
                 units |-> Coalesce(a.units, Str("metric")),
                 appid |-> key]
  IN IF Truthy(exclude) THEN params @@ ("exclude" :> exclude) ELSE params

\* buildParams of the direct-query variant: no validation, no geocoding
buildParamsDirect(a, exclude, key) ==
  LET params == [units |-> Coalesce(a.units, Str("metric")), appid |-> key]
      withExclude ==
        IF Truthy(exclude) THEN params @@ ("exclude" :> exclude) ELSE params
  IN IF Truthy(a.city)
       THEN withExclude @@ ("q" :> a.city)
       ELSE withExclude @@ ("lat" :> String(a.lat)) @@ ("lon" :> String(a.lon))

-----------------------------------------------------------------------------
(* The tool handlers *)

ToolNames ==
  {"get-current-weather", "get-hourly-forecast", "get-daily-forecast",
   "get-alerts"}

\* the exclude argument each handler passes to buildParams
ToolExclude(tool) ==
  CASE tool = "get-current-weather" -> Undefined
    [] tool = "get-hourly-forecast" -> Str("minutely,daily,alerts")
    [] tool = "get-daily-forecast" -> Str("minutely,hourly,alerts")
    [] tool = "get-alerts" -> Str("minutely,hourly,daily")

\* callApi(endpoint, params), given the provider's answer to its one request
callApi(answer) == requestJson(answer)

\* JSON.stringify(v, null, 2): a string, the serialisation of v
Stringify(v) == [t |-> "string", json |-> v]

\* a ToolResult with one text item; the text is kept as its parts
TextResult(parts) == [content |-> <<[type |-> "text", text |-> parts]>>]

\* what getCurrentWeather, getForecast and getDailyForecast return for data
wrapData(data) == Resolved(TextResult(<<Stringify(data)>>))

\* getAlerts testing data.alerts alone, without its length: an empty list is
\* truthy
wrapAlertsNoLengthCheck(data) ==
  IF data = JNull THEN Thrown([t |-> "error", name |-> "TypeError"])
  ELSE LET alerts == Get(data, "alerts")
       IN IF alerts # Undefined
            THEN Resolved(TextResult(
                   <<"Weather Alerts:", "\n\n", Stringify(alerts)>>))
            ELSE Resolved(TextResult(
                   <<"No active weather alerts for the specified location.",
                     "\n\nCurrent conditions:\n",
                     Stringify([location |-> <<String(Get(data, "lat")), ", ",
                                               String(Get(data, "lon"))>>,
                                current |-> Get(data, "current")])>>))

\* what getAlerts returns, or throws, for data
wrapAlerts(data) ==
  IF data = JNull THEN Thrown([t |-> "error", name |-> "TypeError"])
  ELSE LET alerts == Get(data, "alerts")
       IN IF alerts # Undefined /\ Len(alerts.items) > 0
            THEN Resolved(TextResult(
                   <<"Weather Alerts:", "\n\n", Stringify(alerts)>>))
            ELSE Resolved(TextResult(
                   <<"No active weather alerts for the specified location.",
                     "\n\nCurrent conditions:\n",
                     Stringify([location |-> <<String(Get(data, "lat")), ", ",
                                               String(Get(data, "lon"))>>,
                                current |-> Get(data, "current")])>>))

wrapResult(tool, data) ==
  IF tool = "get-alerts" THEN wrapAlerts(data) ELSE wrapData(data)

-----------------------------------------------------------------------------
(* State *)

\* the invocations that may be in progress
Calls == {"c1", "c2"}
\* the invocations of Spec, which runs one invocation
SeqCalls == {"c1"}

VARIABLES
  API_KEY,    \* process.env.OPENWEATHERMAP_API_KEY as read at module load
  pc,         \* per call: idle, geocoding, weather, done, failed
  entry,      \* per call: the tool invoked, or "buildParams" for a direct call
  args,       \* per call: the arguments object
  exclude,    \* per call: the exclude argument of buildParams
  geoAnswer,  \* per call: the geocoder's answer, once it has arrived
  params,     \* per call: the parameters buildParams returned
  wxAnswer,   \* per call: the weather provider's answer, once it has arrived
  outcome,    \* per call: what the call returned or threw
  events      \* per call: what the call has done so far, in order

vars ==
  <<API_KEY, pc, entry, args, exclude, geoAnswer, params, wxAnswer, outcome,
    events>>

NoOutcome == [ok |-> FALSE, pending |-> TRUE]

NoArgs ==
  [city |-> Undefined, lat |-> Undefined, lon |-> Undefined, units |-> Undefined]

IdleCall ==
  [pc |-> "idle", entry |-> "none", args |-> NoArgs, exclude |-> Undefined,
   geoAnswer |-> NoAnswer, params |-> Undefined, wxAnswer |-> NoAnswer,
   outcome |-> NoOutcome, events |-> <<>>]

\* the state of call c with args and exclude kept in one module-level slot,
\* which an invocation in progress at the same time has overwritten
CurSharedArgs(c) ==
  LET others == {d \in Calls \ {c} : pc[d] # "idle"}
      holder == IF others = {} THEN c ELSE CHOOSE d \in others : TRUE
  IN [pc |-> pc[c], entry |-> entry[c], args |-> args[holder],
      exclude |-> exclude[holder], geoAnswer |-> geoAnswer[c],
      params |-> params[c], wxAnswer |-> wxAnswer[c], outcome |-> outcome[c],
      events |-> events[c]]

\* the state of call c as one record
Cur(c) ==
  [pc |-> pc[c], entry |-> entry[c], args |-> args[c], exclude |-> exclude[c],
   geoAnswer |-> geoAnswer[c], params |-> params[c], wxAnswer |-> wxAnswer[c],
   outcome |-> outcome[c], events |-> events[c]]

\* call c moves to the state r; nothing else changes
Become(c, r) ==
  /\ pc' = [pc EXCEPT ![c] = r.pc]
  /\ entry' = [entry EXCEPT ![c] = r.entry]
  /\ args' = [args EXCEPT ![c] = r.args]
  /\ exclude' = [exclude EXCEPT ![c] = r.exclude]
  /\ geoAnswer' = [geoAnswer EXCEPT ![c] = r.geoAnswer]
  /\ params' = [params EXCEPT ![c] = r.params]
  /\ wxAnswer' = [wxAnswer EXCEPT ![c] = r.wxAnswer]
  /\ outcome' = [outcome EXCEPT ![c] = r.outcome]
  /\ events' = [events EXCEPT ![c] = r.events]
  /\ UNCHANGED API_KEY

\* the inputs
EnvKeys == {Undefined, Str(""), Str("k3y")}
Cities == {Undefined, Str(""), Str("London")}
Lats == {Undefined} \cup {Num(v) : v \in {-91, -90, 0, 90, 91}}
Lons == {Undefined} \cup {Num(v) : v \in {-181, -180, 0, 180, 181}}
UnitsArgs == {Undefined} \cup {Str(u) : u \in UnitsEnum}
\* arguments of the TypeScript type CommonArgs, any field possibly missing
ArgsSet == [city : Cities, lat : Lats, lon : Lons, units : UnitsArgs]
\* exclude arguments of a direct call of buildParams
Excludes == {Undefined, Str(""), Str("current,minutely")}

\* the check at module load: without a key the process exits, and nothing is
\* ever invoked
Started(key) == Truthy(key)

-----------------------------------------------------------------------------
(* The steps of an invocation *)

\* the call returns or throws
Finish(r, out) ==
  [r EXCEPT !.pc = IF out.ok THEN "done" ELSE "failed",
            !.outcome = out,
            !.events = @ \o <<IF out.ok THEN "return" ELSE "throw">>]

\* buildParams has returned p: a direct call is over, a handler goes on to
\* callApi, which issues the GET
AfterBuild(r, p) ==
  LET built == [r EXCEPT !.params = p, !.events = @ \o <<"params">>]
  IN IF r.entry = "buildParams"
       THEN Finish(built, Resolved(p))
       ELSE [built EXCEPT !.pc = "weather",
                          !.events = @ \o <<"weather_request">>]

\* Begin taking the geocoding branch for any city that is not undefined, the
\* empty string included
BeginCityDefined(e, a, ex, key) ==
  LET r == [IdleCall EXCEPT !.entry = e, !.args = a, !.exclude = ex]
      issues == commonSchemaIssues(a)
  IN IF issues # {}
       THEN Finish([r EXCEPT !.events = <<"invalid">>], Thrown(ZodError(issues)))
     ELSE IF a.city # Undefined
       THEN [r EXCEPT !.pc = "geocoding",
                      !.events = <<"valid", "geocode_request">>]
     ELSE AfterBuild([r EXCEPT !.events = <<"valid">>],
                     buildParams(a.lat, a.lon, a, ex, key))

\* a handler, or buildParams itself, is called: buildParams validates, then
\* either starts the geocoding request or takes the caller's coordinates
Begin(e, a, ex, key) ==
  LET r == [IdleCall EXCEPT !.entry = e, !.args = a, !.exclude = ex]
      issues == commonSchemaIssues(a)
  IN IF issues # {}
       THEN Finish([r EXCEPT !.events = <<"invalid">>], Thrown(ZodError(issues)))
     ELSE IF Truthy(a.city)
       THEN [r EXCEPT !.pc = "geocoding",
                      !.events = <<"valid", "geocode_request">>]
     ELSE AfterBuild([r EXCEPT !.events = <<"valid">>],
                     buildParams(a.lat, a.lon, a, ex, key))

\* the geocoder has answered: geocodeCity returns or throws, and buildParams
\* with it
OnGeocode(r, answer, key) ==
  LET g == geocodeCity(r.args.city, answer)
      got == [r EXCEPT !.geoAnswer = answer,
                       !.events = @ \o <<"geocode_response">>]
  IN IF g.ok
       THEN AfterBuild(got, buildParams(g.value.lat, g.value.lon, r.args,
                                        r.exclude, key))
       ELSE Finish(got, g)

\* the weather provider has answered: callApi returns or throws, and the
\* handler wraps the data
OnWeather(r, answer) ==
  LET w == callApi(answer)
      got == [r EXCEPT !.wxAnswer = answer,
                       !.events = @ \o <<"weather_response">>]
  IN IF w.ok THEN Finish(got, wrapResult(r.entry, w.value))
     ELSE Finish(got, w)

-----------------------------------------------------------------------------
(* Actions *)

Init ==
  /\ API_KEY \in EnvKeys
  /\ pc = [c \in Calls |-> IdleCall.pc]
  /\ entry = [c \in Calls |-> IdleCall.entry]
  /\ args = [c \in Calls |-> IdleCall.args]
  /\ exclude = [c \in Calls |-> IdleCall.exclude]
  /\ geoAnswer = [c \in Calls |-> IdleCall.geoAnswer]
  /\ params = [c \in Calls |-> IdleCall.params]
  /\ wxAnswer = [c \in Calls |-> IdleCall.wxAnswer]
  /\ outcome = [c \in Calls |-> IdleCall.outcome]
  /\ events = [c \in Calls |-> IdleCall.events]

\* a registered tool is invoked with some arguments
InvokeTool(c) ==
  /\ Started(API_KEY)
  /\ pc[c] = "idle"
  /\ \E tool \in ToolNames, a \in ArgsSet :
       Become(c, Begin(tool, a, ToolExclude(tool), API_KEY))

\* buildParams is called directly, as the tests do
CallBuildParams(c) ==
  /\ Started(API_KEY)
  /\ pc[c] = "idle"
  /\ \E a \in ArgsSet, ex \in Excludes :
       Become(c, Begin("buildParams", a, ex, API_KEY))

\* the geocoder's answer arrives
GeocodeAnswer(c) ==
  /\ pc[c] = "geocoding"
  /\ \E answer \in GeoAnswers : Become(c, OnGeocode(Cur(c), answer, API_KEY))

\* the weather provider's answer arrives
WeatherAnswer(c) ==
  /\ pc[c] = "weather"
  /\ \E answer \in WeatherAnswers : Become(c, OnWeather(Cur(c), answer))

Next ==
  \E c \in SeqCalls :
    \/ InvokeTool(c)
    \/ CallBuildParams(c)
    \/ GeocodeAnswer(c)
    \/ WeatherAnswer(c)

Spec == Init /\ [][Next]_vars

-----------------------------------------------------------------------------
(* The direct-query variant: buildParams neither validates nor geocodes *)

CallBuildParamsDirect(c) ==
  /\ Started(API_KEY)
  /\ pc[c] = "idle"
  /\ \E a \in ArgsSet, ex \in Excludes :
       LET p == buildParamsDirect(a, ex, API_KEY)
       IN Become(c, Finish([IdleCall EXCEPT !.entry = "buildParams",
                                            !.args = a,
                                            !.exclude = ex,
                                            !.params = p,
                                            !.events = <<"params">>],
                           Resolved(p)))

NextDirect == \E c \in SeqCalls : CallBuildParamsDirect(c)

SpecDirect == Init /\ [][NextDirect]_vars

-----------------------------------------------------------------------------
(* Concurrent invocations: the handlers are async functions, so a second
   invocation may start and proceed while the first awaits the geocoder or
   the weather provider.  The inputs are a selection of those of Spec. *)

ConcTools == {"get-current-weather", "get-alerts"}

ConcArgs ==
  { [NoArgs EXCEPT !.city = Str("London")],
    [NoArgs EXCEPT !.city = Str("London"), !.lat = Num(90), !.lon = Num(180),
                   !.units = Str("imperial")],
    [NoArgs EXCEPT !.lat = Num(0), !.lon = Num(0)],
    [NoArgs EXCEPT !.lat = Num(-90), !.lon = Num(180), !.units = Str("standard")],
    [NoArgs EXCEPT !.lat = Num(91)] }

ConcGeoAnswers ==
  { Rejected,
    Json(200, JArray(<<>>)),
    Json(200, JArray(<<[lat |-> Text(<<"5", "1">>), lon |-> Text(<<"-", "0">>)]>>)),
    Json(200, JArray(<<[lat |-> Text(<<" ", "0", "7">>),
                        lon |-> Text(<<"+", "5", "x">>)]>>)) }

ConcWeatherAnswers ==
  { Rejected,
    Json(401, ErrorDoc),
    Json(200, OneCall(Undefined)),
    Json(200, OneCall(JArray(<<[event |-> "Flood"]>>))) }

\* a tool is invoked, whatever the other invocation is doing
ConcInvokeTool(c) ==
  /\ Started(API_KEY)
  /\ pc[c] = "idle"
  /\ \E tool \in ConcTools, a \in ConcArgs :
       Become(c, Begin(tool, a, ToolExclude(tool), API_KEY))

ConcGeocodeAnswer(c) ==
  /\ pc[c] = "geocoding"
  /\ \E answer \in ConcGeoAnswers :
       Become(c, OnGeocode(Cur(c), answer, API_KEY))

ConcWeatherAnswer(c) ==
  /\ pc[c] = "weather"
  /\ \E answer \in ConcWeatherAnswers : Become(c, OnWeather(Cur(c), answer))

NextConc ==
  \E c \in Calls :
    \/ ConcInvokeTool(c)
    \/ ConcGeocodeAnswer(c)
    \/ ConcWeatherAnswer(c)

SpecConc == Init /\ [][NextConc]_vars

-----------------------------------------------------------------------------
(* Properties *)

Count(seq, e) == Cardinality({i \in 1..Len(seq) : seq[i] = e})

IsPrefix(p, seq) == Len(p) <= Len(seq) /\ SubSeq(seq, 1, Len(p)) = p

Invoked(c) == pc[c] # "idle"

\* no request has left for the geocoder or the weather provider
NoOutbound(c) ==
  Count(events[c], "geocode_request") = 0 /\ Count(events[c], "weather_request") = 0

BothCoordinates(a) == a.lat # Undefined /\ a.lon # Undefined

\* C1: a query with no (or an empty) city and without both coordinates fails
\* with an error whose message contains "Provide city or both lat and lon",
\* and nothing is requested from the geocoder or the weather provider.
C1_MissingLocationFails ==
  \A c \in Calls :
    (Invoked(c) /\ ~Truthy(args[c].city) /\ ~BothCoordinates(args[c]))
      => /\ pc[c] = "failed"
         /\ ~outcome[c].ok
         /\ MessageContains(outcome[c].error, "Provide city or both lat and lon")
         /\ NoOutbound(c)
         /\ params[c] = Undefined

\* the case of the test: buildParams({ lat: ... }) has been called and failed
C1_Witness ==
  \E c \in Calls :
    /\ entry[c] = "buildParams"
    /\ args[c].city = Undefined
    /\ args[c].lat = Num(90)
    /\ args[c].lon = Undefined
    /\ pc[c] = "failed"

C3_CityParamsCarryQ ==
  \A c \in Calls :
    (entry[c] = "buildParams" /\ pc[c] = "done" /\ Truthy(args[c].city)
       /\ args[c].lat = Undefined /\ args[c].lon = Undefined)
      => /\ Get(params[c], "q") = args[c].city
         /\ args[c].units # Undefined => params[c].units = args[c].units
         /\ Truthy(params[c].appid)

\* a coordinate is present and outside its range
OutOfRange(a) ==
  \/ IsNum(a.lat) /\ (a.lat.v < -90 \/ a.lat.v > 90)
  \/ IsNum(a.lon) /\ (a.lon.v < -180 \/ a.lon.v > 180)

\* C4: the units of the parameters are "metric" when the caller gave none and
\* the caller's value otherwise, and always one of standard, metric, imperial.
C4_UnitsDefaultMetric ==
  \A c \in Calls :
    /\ params[c] # Undefined
         => /\ args[c].units = Undefined => params[c].units = Str("metric")
            /\ args[c].units # Undefined => params[c].units = args[c].units
            /\ params[c].units \in {Str("standard"), Str("metric"), Str("imperial")}
    /\ (Invoked(c) /\ commonSchemaIssues(args[c]) = {} /\ ~Truthy(args[c].city))
         => params[c] # Undefined

\* a request has left for the weather provider with the default units
C4_Witness ==
  \E c \in Calls :
    /\ args[c].units = Undefined
    /\ Count(events[c], "weather_request") = 1
    /\ params[c].units = Str("metric")

\* C5: a query with a latitude outside [-90, 90] or a longitude outside
\* [-180, 180] fails validation and nothing is requested, also when it
\* carries a city.
C5_OutOfRangeFails ==
  \A c \in Calls :
    (Invoked(c) /\ OutOfRange(args[c]))
      => /\ pc[c] = "failed"
         /\ ~outcome[c].ok
         /\ outcome[c].error.name = "ZodError"
         /\ NoOutbound(c)
         /\ params[c] = Undefined

\* a tool was invoked with a city and latitude 91, and failed
C5_Witness ==
  \E c \in Calls :
    /\ entry[c] \in ToolNames
    /\ args[c].city = Str("London")
    /\ args[c].lat = Num(91)
    /\ args[c].lon = Num(0)
    /\ pc[c] = "failed"

\* C6: for a valid query with no city and both coordinates (0 included),
\* buildParams returns lat and lon as the string form of the caller's
\* coordinates, the units as given, a non-empty appid, and no request goes to
\* the geocoder.
C6_CoordinatesPassThrough ==
  \A c \in Calls :
    (Invoked(c) /\ ~Truthy(args[c].city) /\ BothCoordinates(args[c])
       /\ ~OutOfRange(args[c]))
      => /\ params[c] # Undefined
         /\ params[c].lat = String(args[c].lat)
         /\ params[c].lon = String(args[c].lon)
         /\ parseFloat(params[c].lat) = args[c].lat
         /\ parseFloat(params[c].lon) = args[c].lon
         /\ params[c].units = Coalesce(args[c].units, Str("metric"))
         /\ Truthy(params[c].appid)
         /\ Count(events[c], "geocode_request") = 0
         /\ geoAnswer[c] = NoAnswer
         /\ entry[c] = "buildParams" => outcome[c] = Resolved(params[c])

\* buildParams({ city: "", lat: 0, lon: -180 }) has returned "0" and "-180"
C6_Witness ==
  \E c \in Calls :
    /\ entry[c] = "buildParams"
    /\ args[c].city = Str("")
    /\ args[c].lat = Num(0)
    /\ args[c].lon = Num(-180)
    /\ pc[c] = "done"
    /\ outcome[c].ok
    /\ outcome[c].value.lat = Text(<<"0">>)
    /\ outcome[c].value.lon = Text(<<"-", "1", "8", "0">>)

\* the steps of a successful invocation, in the order the specification gives
PlannedEvents(e, a) ==
  <<"valid">>
    \o (IF Truthy(a.city) THEN <<"geocode_request", "geocode_response">> ELSE <<>>)
    \o <<"params">>
    \o (IF e = "buildParams" THEN <<>> ELSE <<"weather_request", "weather_response">>)
    \o <<"return">>

\* C7: the steps of an invocation occur in the order validate, resolve
\* coordinates, build parameters, weather GET, return, possibly cut short by
\* a failure; nothing is requested unless validation passed; a validated
\* invocation requests geocoding if and only if the query carries a city, and
\* has the geocoder's answer before the weather request; a successful tool
\* invocation has issued exactly one weather GET (one outbound request for a
\* coordinate query, two for a city query) and returned once.
C7_StepsInOrder ==
  \A c \in Calls :
    Invoked(c) =>
      LET plan == PlannedEvents(entry[c], args[c])
          ev == events[c]
          geo == Count(ev, "geocode_request")
          wx == Count(ev, "weather_request")
      IN /\ \/ ev = <<"invalid", "throw">>
            \/ IsPrefix(ev, plan)
            \/ /\ Len(ev) >= 2
               /\ ev[Len(ev)] = "throw"
               /\ IsPrefix(SubSeq(ev, 1, Len(ev) - 1), plan)
         /\ ev # <<>>
         /\ ev[1] = "valid" => (geo = 1 <=> Truthy(args[c].city))
         /\ ev[1] # "valid" => (geo = 0 /\ wx = 0)
         /\ geo <= 1 /\ wx <= 1
         /\ (pc[c] = "done" /\ entry[c] \in ToolNames)
              => /\ ev = plan
                 /\ wx = 1
                 /\ geo + wx = (IF Truthy(args[c].city) THEN 2 ELSE 1)
                 /\ Count(ev, "return") = 1
                 /\ Count(ev, "throw") = 0
                 /\ outcome[c].ok
                 /\ Len(outcome[c].value.content) = 1
         /\ pc[c] \in {"done", "failed"}
              => Count(ev, "return") + Count(ev, "throw") = 1

\* a tool invoked with a city has returned after its two requests
C7_Witness ==
  \E c \in Calls :
    /\ entry[c] = "get-current-weather"
    /\ args[c].city = Str("London")
    /\ pc[c] = "done"
    /\ events[c] = <<"valid", "geocode_request", "geocode_response", "params",
                     "weather_request", "weather_response", "return">>

\* the weather request ended in an HTTP error: no response, or an error status
HttpError(answer) ==
  \/ answer.kind = "reject"
  \/ answer.kind = "response" /\ answer.status >= 400

\* C8: when the weather request ends in an HTTP error (transport failure or
\* error status), the invocation fails and the request was made once.
C8_HttpErrorFailsCall ==
  \A c \in Calls :
    HttpError(wxAnswer[c])
      => /\ pc[c] = "failed"
         /\ ~outcome[c].ok
         /\ Count(events[c], "weather_request") = 1

\* the geocoding lookup failed: request failure, unparseable body, empty list
GeocodeFailed(answer) ==
  \/ answer.kind = "reject"
  \/ answer.kind = "response" /\ ~answer.json
  \/ answer.kind = "response" /\ answer.json /\ answer.data = JArray(<<>>)

\* C9: when the geocoding lookup fails, the invocation fails with a message
\* beginning 'Failed to geocode city "<city>"', the geocoder was asked once
\* and the weather provider not at all.
C9_GeocodeFailureSurfaces ==
  \A c \in Calls :
    GeocodeFailed(geoAnswer[c])
      => /\ pc[c] = "failed"
         /\ ~outcome[c].ok
         /\ "message" \in DOMAIN outcome[c].error
         /\ IsPrefix(<<"Failed to geocode city \"", args[c].city.s, "\": ">>,
                     outcome[c].error.message)
         /\ Count(events[c], "geocode_request") = 1
         /\ Count(events[c], "weather_request") = 0
         /\ params[c] = Undefined

\* a tool invoked with a city got an empty list from the geocoder and failed
C9_Witness ==
  \E c \in Calls :
    /\ entry[c] \in ToolNames
    /\ args[c].city = Str("London")
    /\ geoAnswer[c] = Json(200, JArray(<<>>))
    /\ pc[c] = "failed"
    /\ events[c] = <<"valid", "geocode_request", "geocode_response", "throw">>

\* the text is a number between lo and hi
TextInRange(x, lo, hi) ==
  LET n == parseFloat(x) IN IsNum(n) /\ lo <= n.v /\ n.v <= hi

\* C10: in the parameters of every weather request, lat is a number in
\* [-90, 90] and lon a number in [-180, 180], whether the coordinates came
\* from the caller or from the geocoder.
C10_SentCoordinatesInRange ==
  \A c \in Calls :
    Count(events[c], "weather_request") > 0
      => /\ TextInRange(params[c].lat, -90, 90)
         /\ TextInRange(params[c].lon, -180, 180)

\* an invocation run alone: called with arguments a, and given the answers
\* ga and wa of the geocoder and the weather provider as far as they have
\* arrived
Alone(e, a, ex, key, ga, wa) ==
  LET begun == Begin(e, a, ex, key)
      located == IF begun.pc = "geocoding" /\ ga # NoAnswer
                   THEN OnGeocode(begun, ga, key) ELSE begun
  IN IF located.pc = "weather" /\ wa # NoAnswer
       THEN OnWeather(located, wa) ELSE located

\* C11: in every interleaving of concurrent invocations, each invocation's
\* parameters, its steps and its result or failure are those of the same
\* invocation run alone with the same upstream answers.
C11_InvocationsIndependent ==
  \A c \in Calls :
    Invoked(c) =>
      LET alone == Alone(entry[c], args[c], ToolExclude(entry[c]), API_KEY,
                         geoAnswer[c], wxAnswer[c])
      IN /\ params[c] = alone.params
         /\ outcome[c] = alone.outcome
         /\ events[c] = alone.events
         /\ pc[c] = alone.pc
         /\ exclude[c] = ToolExclude(entry[c])

\* two city invocations with different arguments and different geocoder
\* answers are both suspended at their weather request
C11_Witness ==
  /\ args["c1"].city = Str("London") /\ args["c1"].units = Undefined
  /\ args["c2"].city = Str("London") /\ args["c2"].units = Str("imperial")
  /\ entry["c1"] = "get-alerts" /\ entry["c2"] = "get-current-weather"
  /\ pc["c1"] = "weather" /\ pc["c2"] = "weather"
  /\ geoAnswer["c1"] # geoAnswer["c2"]
  /\ params["c1"].lat = Text(<<"7">>) /\ params["c2"].lat = Text(<<"5", "1">>)
  /\ params["c1"].units = Str("metric") /\ params["c2"].units = Str("imperial")
  /\ "exclude" \in DOMAIN params["c1"] /\ "exclude" \notin DOMAIN params["c2"]

\* the sections of a One Call document that exclude can name
Sections == {"current", "minutely", "hourly", "daily", "alerts"}

RECURSIVE JoinCommas(_)
JoinCommas(secs) ==
  IF secs = <<>> THEN ""
  ELSE IF Len(secs) = 1 THEN secs[1]
  ELSE secs[1] \o "," \o JoinCommas(Tail(secs))

\* the exclude value x is a comma-separated list of sections, all in allowed
ExcludesOnly(x, allowed) ==
  /\ "s" \in DOMAIN x
  /\ \E secs \in SeqsUpTo(allowed, Cardinality(allowed)) : JoinCommas(secs) = x.s

\* C12: the parameters have an exclude key if and only if a non-empty exclude
\* was passed to buildParams, and then it is that value unchanged;
\* get-current-weather sends none, get-hourly-forecast "minutely,daily,alerts",
\* get-daily-forecast "minutely,hourly,alerts", get-alerts
\* "minutely,hourly,daily"; no tool excludes the section it returns.
C12_ExcludePassedThrough ==
  \A c \in Calls :
    params[c] # Undefined =>
      LET sent == Get(params[c], "exclude")
      IN /\ "exclude" \in DOMAIN params[c]
              <=> (exclude[c] # Undefined /\ exclude[c] # Str(""))
         /\ "exclude" \in DOMAIN params[c] => sent = exclude[c]
         /\ entry[c] = "get-current-weather" => "exclude" \notin DOMAIN params[c]
         /\ entry[c] = "get-hourly-forecast"
              => /\ sent = Str("minutely,daily,alerts")
                 /\ ExcludesOnly(sent, Sections \ {"hourly"})
         /\ entry[c] = "get-daily-forecast"
              => /\ sent = Str("minutely,hourly,alerts")
                 /\ ExcludesOnly(sent, Sections \ {"daily"})
         /\ entry[c] = "get-alerts"
              => /\ sent = Str("minutely,hourly,daily")
                 /\ ExcludesOnly(sent, Sections \ {"alerts"})

\* get-hourly-forecast has sent its weather request
C12_Witness ==
  \E c \in Calls :
    /\ entry[c] = "get-hourly-forecast"
    /\ Count(events[c], "weather_request") = 1
    /\ "exclude" \in DOMAIN params[c]
    /\ params[c].exclude = Str("minutely,daily,alerts")

\* C13: a successful get-alerts invocation returns a ToolResult with exactly
\* one content item, of type "text".  When the upstream document has a
\* non-empty alerts list the text starts with "Weather Alerts:" and carries
\* that list; otherwise (alerts missing or empty) it starts with "No active
\* weather alerts for the specified location." and carries the upstream lat
\* and lon as the location, and the upstream current conditions.  The first
\* form is never produced for a missing or empty list.
C13_AlertsResultForms ==
  \A c \in Calls :
    (entry[c] = "get-alerts" /\ pc[c] = "done") =>
      LET data == wxAnswer[c].data
          alerts == Get(data, "alerts")
          hasAlerts == alerts # Undefined /\ alerts.j = "array" /\ alerts.items # <<>>
          result == outcome[c].value
          text == result.content[1].text
      IN /\ outcome[c].ok
         /\ DOMAIN result = {"content"}
         /\ Len(result.content) = 1
         /\ result.content[1].type = "text"
         /\ hasAlerts
              => /\ text[1] = "Weather Alerts:"
                 /\ text[Len(text)] = Stringify(alerts)
         /\ ~hasAlerts
              => /\ text[1] = "No active weather alerts for the specified location."
                 /\ text[Len(text)] =
                      Stringify([location |-> <<String(Get(data, "lat")), ", ",
                                                String(Get(data, "lon"))>>,
                                 current |-> Get(data, "current")])
         /\ text[1] = "Weather Alerts:" => hasAlerts

\* get-alerts has returned for an upstream document with an empty alerts list
C13_Witness ==
  \E c \in Calls :
    /\ entry[c] = "get-alerts"
    /\ pc[c] = "done"
    /\ wxAnswer[c] = Json(200, OneCall(JArray(<<>>)))
    /\ outcome[c].value.content[1].text[1] =
         "No active weather alerts for the specified location."
    /\ outcome[c].value.content[1].text[3].json.location =
         <<Text(<<"5", "1">>), ", ", Text(<<"0">>)>>
    /\ outcome[c].value.content[1].text[3].json.current = [temp |-> 10]

====
